---- MODULE Spec2Model ----
(***************************************************************************)
(* A model of asynccloud: the AsyncCloud client's authentication state     *)
(* (asoundcloud.py) and the four request shapes of arequests.py            *)
(* (SingleRequest, CollectionRequest, ListRequest, GraphQLRequest),        *)
(* together with the polymorphic decoder _convert_dict and the URL         *)
(* templater Request._format_url_and_remove_params.                        *)
(*                                                                         *)
(* Strings that the code takes apart (auth tokens, authorization headers)  *)
(* are sequences of whitespace-separated words; an Optional[str] is a      *)
(* record with a "none" flag.  JSON payloads are sets of field names; a    *)
(* record type accepts a payload when its fields are all present.          *)
(***************************************************************************)
EXTENDS Integers, Sequences, FiniteSets

VARIABLES
    client_id,        \* AsyncCloud.client_id
    _auth_token,      \* AsyncCloud._auth_token   (Optional[str])
    _authorization,   \* AsyncCloud._authorization (Optional[str])
    session_headers,  \* AsyncCloud.session.headers (the session's default headers)
    pc,               \* position of the CollectionRequest async generator
    endpoint,         \* the endpoint definition of the current call or generator
    call_kwargs,      \* the keyword arguments the generator was created with
    resource_url,     \* CollectionRequest.__call__ local: resource_url
    params,           \* CollectionRequest.__call__ local: params
    data,             \* CollectionRequest.__call__ local: data["collection"]
    idx,              \* position of the for loop in data["collection"]
    next_href,        \* data.get("next_href") of the page being iterated
    yielded,          \* the records the consumer has received from the generator
    served,           \* the elements of the collections served so far, in page order
    nreq,             \* HTTP requests issued by the current operation
    last_request,     \* the HTTP request issued last
    last_status,      \* the status of the response to last_request
    last_body,        \* the JSON objects of the response to last_request
    gen_error,        \* the exception the generator raised to its consumer
    result,           \* outcome of the last call or statement as its caller sees it
    phase,            \* "boot" before AsyncCloud(...), "running", "failed", "exited"
    session,          \* AsyncCloud.session: "none", "open" or "closed"
    sessions_created, \* aiohttp.ClientSession objects constructed
    session_closes,   \* calls of session.close()
    atexit_handlers,  \* callbacks registered with atexit and not yet run
    bootstrap_fetches,\* requests.get calls of generate_client_id
    held,             \* responses acquired by the current operation and not released
    released,         \* responses the current operation has released
    ec_pc,            \* position of get_track_comments_with_interactions
    track_comments,   \* the comments of the track, in the order the server lists them
    comments,         \* what the comments generator has still to yield
    chunk,            \* get_track_comments_with_interactions local: chunk
    pending,          \* comments_with_interactions not yet yielded
    emitted,          \* the results the consumer has received
    queries,          \* the GraphQL queries of the operation and their answers
    pulled,           \* comments the operation has taken from the comments generator
    other             \* a second paginated sequence, while the consumer attends to the first

vars == <<client_id, _auth_token, _authorization, session_headers, pc, endpoint,
          call_kwargs, resource_url, params, data, idx, next_href, yielded,
          served, gen_error, nreq, last_request, last_status, last_body, result,
          phase, session, sessions_created, session_closes, atexit_handlers,
          bootstrap_fetches, held, released,
          ec_pc, track_comments, comments, chunk, pending, emitted, queries, pulled,
          other>>

clientVars == <<client_id, _auth_token, _authorization, session_headers>>
lifeVars == <<phase, session, sessions_created, session_closes, atexit_handlers,
              bootstrap_fetches>>
respVars == <<held, released>>
ecVars == <<ec_pc, track_comments, comments, chunk, pending, emitted, queries, pulled>>
genVars == <<pc, endpoint, call_kwargs, resource_url, params, data, idx,
             next_href, yielded, served, gen_error>>

----------------------------------------------------------------------------
(* Bounds of the model *)

\* pages one paginated sequence may request
MaxPages == 3

\* comments a track may have
MaxComments == 15

----------------------------------------------------------------------------
(* Optional strings *)

NoneStr == [none |-> TRUE, words |-> <<>>]
Str(ws) == [none |-> FALSE, words |-> ws]

\* Python truthiness of an Optional[str]: None and "" are falsy
Truthy(s) == ~s.none /\ s.words # <<>>

\* f"OAuth {token}"
OAuthOf(tok) == Str(<<"OAuth">> \o (IF tok.none THEN <<"None">> ELSE tok.words))

\* str.startswith("OAuth"): decided by the first word
StartsWithOAuth(s) == s.words # <<>> /\ s.words[1] \in {"OAuth"}

\* new_auth_token.split()[-1]
LastWord(s) == Str(<<s.words[Len(s.words)]>>)

\* the values a caller passes as an auth token
TokenInputs == {NoneStr, Str(<<>>), Str(<<"abc">>), Str(<<"OAuth", "abc">>)}

----------------------------------------------------------------------------
(* Headers: functions from header names to strings *)

NoHeaders == [h \in {} |-> NoneStr]

\* AsyncCloud._DEFAULT_USER_AGENT
DefaultUserAgent == Str(<<"Mozilla/5.0">>)

\* AsyncCloud._get_default_headers
GetDefaultHeaders == [h \in {"User-Agent"} |-> DefaultUserAgent]

SetHeader(hs, name, v) ==
    [h \in DOMAIN hs \cup {name} |-> IF h = name THEN v ELSE hs[h]]

PopHeader(hs, name) == [h \in DOMAIN hs \ {name} |-> hs[h]]

\* aiohttp merges the session's default headers with the headers of the call
MergeHeaders(defaults, given) ==
    [h \in DOMAIN defaults \cup DOMAIN given |->
        IF h \in DOMAIN given THEN given[h] ELSE defaults[h]]

\* the Authorization header of a set of headers, None when absent
AuthHeader(hs) == IF "Authorization" \in DOMAIN hs THEN hs["Authorization"] ELSE NoneStr

----------------------------------------------------------------------------
(* Authentication state of the client *)

\* a use_auth setter that refuses to switch off without a token
UseAuthRaisesWhenOff(value, tok) == ~value /\ ~Truthy(tok)

\* use_auth setter, when it does not raise: the new (_authorization, session headers)
UseAuthRaises(value, tok) == value /\ ~Truthy(tok)

UseAuthAuthorization(value, tok) == IF value THEN OAuthOf(tok) ELSE NoneStr

\* a use_auth setter that leaves the session's headers as they are
UseAuthHeadersKeeps(value, tok, hs) == hs

UseAuthHeaders(value, tok, hs) ==
    IF value THEN SetHeader(hs, "Authorization", OAuthOf(tok))
    ELSE PopHeader(hs, "Authorization")

\* use_auth getter
use_auth == ~_auth_token.none

\* the auth_token setter storing its argument as it is given
NormalizeTokenKeepsPrefix(new) == new

\* auth_token setter: strips the scheme prefix
NormalizeToken(new) ==
    IF ~new.none /\ StartsWithOAuth(new) THEN LastWord(new) ELSE new

\* auth_token setter: the derived header
DerivedAuthorization(new) ==
    IF Truthy(NormalizeToken(new)) THEN OAuthOf(NormalizeToken(new)) ELSE NoneStr

----------------------------------------------------------------------------
(* Record types and the polymorphic decoder *)

\* The record types of soundcloud.resource are defined outside this
\* repository.  Three types stand for them: "Sub" has every field of "Super"
\* and one more, "Other" shares no field with them.
\* UserInteractionsQueryResult is the repository's own result type.
TypeFields(t) ==
    CASE t = "Sub" -> {"a", "b"}
      [] t = "Super" -> {"a"}
      [] t = "Other" -> {"c"}
      [] t = "UserInteractionsQueryResult" -> {"user", "creator"}
      [] t = "NoContentResponse" -> {"status_code"}

\* the JSON objects a response may carry
Payloads == {{"a", "b"}, {"a"}, {"c"}, {}}

\* t.from_dict(d) succeeds when every field of t is present in d
FromDictOk(t, d) == TypeFields(t) \subseteq d

\* the value t.from_dict(d) constructs (fields t does not declare are ignored)
FromDict(t, d) == [type |-> t, fields |-> d \cap TypeFields(t)]

NoValue == [type |-> "", fields |-> {}]

Single(t) == [union |-> FALSE, args |-> <<t>>]
UnionOf(ts) == [union |-> TRUE, args |-> ts]

\* a candidate type of return_type accepts the payload d
Decodable(d, return_type) ==
    \E i \in 1..Len(return_type.args) : FromDictOk(return_type.args[i], d)

\* the candidates tried from the last to the first
RECURSIVE TryFromEnd(_, _, _)
TryFromEnd(ts, k, d) ==
    IF k < 1
    THEN [ok |-> FALSE, val |-> NoValue, err |-> "ValueError"]
    ELSE IF FromDictOk(ts[k], d)
         THEN [ok |-> TRUE, val |-> FromDict(ts[k], d), err |-> ""]
         ELSE TryFromEnd(ts, k - 1, d)

\* TryCandidates iterating over the candidates in reverse order
TryCandidatesReversed(ts, i, d) == TryFromEnd(ts, Len(ts), d)

\* the loop of _convert_dict over get_args(return_type), from candidate i on
RECURSIVE TryCandidates(_, _, _)
TryCandidates(ts, i, d) ==
    IF i > Len(ts)
    THEN [ok |-> FALSE, val |-> NoValue, err |-> "ValueError"]
    ELSE IF FromDictOk(ts[i], d)
         THEN [ok |-> TRUE, val |-> FromDict(ts[i], d), err |-> ""]
         ELSE TryCandidates(ts, i + 1, d)

\* _convert_dict without its final raise: a payload no candidate accepts
\* falls off the end of the function, which then returns None
ConvertDictSwallows(d, return_type) ==
    IF Decodable(d, return_type)
    THEN (IF return_type.union
          THEN TryCandidates(return_type.args, 1, d)
          ELSE [ok |-> TRUE, val |-> FromDict(return_type.args[1], d), err |-> ""])
    ELSE [ok |-> TRUE, val |-> NoValue, err |-> ""]

\* _convert_dict(d, return_type)
_convert_dict(d, return_type) ==
    IF return_type.union
    THEN TryCandidates(return_type.args, 1, d)
    ELSE IF FromDictOk(return_type.args[1], d)
         THEN [ok |-> TRUE, val |-> FromDict(return_type.args[1], d), err |-> ""]
         ELSE [ok |-> FALSE, val |-> NoValue, err |-> "from_dict"]

----------------------------------------------------------------------------
(* Endpoint definitions and the URL templater *)

Lit(s) == [ph |-> FALSE, s |-> s]
Ph(s) == [ph |-> TRUE, s |-> s]

\* Request.base
base == "https://api-v2.soundcloud.com"

\* GraphQLRequest.base
graphql_base == "https://graph.soundcloud.com/graphql"

\* soundcloud.resource.user.User, the type isinstance tests for; "Other"
\* stands for it
User == "Other"

MeRequest ==
    [format_url |-> <<Lit("/me")>>, return_type |-> Single(User), method |-> "GET"]
ResolveRequest ==
    [format_url |-> <<Lit("/resolve")>>,
     return_type |-> UnionOf(<<"Other", "Sub", "Super">>), method |-> "GET"]
TrackRequest ==
    [format_url |-> <<Lit("/tracks/"), Ph("track_id")>>,
     return_type |-> Single("Super"), method |-> "GET"]
DeletePlaylistRequest ==
    [format_url |-> <<Lit("/playlists/"), Ph("playlist_id")>>,
     return_type |-> Single("NoContentResponse"), method |-> "DELETE"]
SearchRequest ==
    [format_url |-> <<Lit("/search")>>,
     return_type |-> UnionOf(<<"Sub", "Super">>), method |-> "GET"]
TrackCommentsRequest ==
    [format_url |-> <<Lit("/tracks/"), Ph("track_id"), Lit("/comments")>>,
     return_type |-> Single("Super"), method |-> "GET"]
TracksRequest ==
    [format_url |-> <<Lit("/tracks")>>,
     return_type |-> Single("Super"), method |-> "GET"]
UserConversationMessagesRequest ==
    [format_url |-> <<Lit("/users/"), Ph("user_id"), Lit("/conversations/"),
                      Ph("conversation_id"), Lit("/messages")>>,
     return_type |-> Single("Super"), method |-> "GET"]
UserWebProfilesRequest ==
    [format_url |-> <<Lit("/users/"), Ph("user_urn"), Lit("/web-profiles")>>,
     return_type |-> Single("Super"), method |-> "GET"]
UserInteractionsRequest ==
    [operation_name |-> "UserInteractions",
     return_type |-> Single("UserInteractionsQueryResult"),
     query_template_str |-> "query UserInteractions"]

SingleEndpoints == {ResolveRequest, TrackRequest}
CollectionEndpoints ==
    {SearchRequest, TrackCommentsRequest, UserConversationMessagesRequest}
ListEndpoints == {TracksRequest, UserWebProfilesRequest}

NoKwargs == [k \in {} |-> ""]

\* the keyword arguments of a call
KwargInputs ==
    {NoKwargs, [k \in {"track_id"} |-> "1"],
     [k \in {"track_id", "q"} |-> IF k = "q" THEN "x" ELSE "1"],
     [k \in {"user_id", "conversation_id", "q"} |->
        IF k = "q" THEN "x" ELSE IF k = "user_id" THEN "7" ELSE "9"]}

\* the keyword arguments of the specification that interleaves every operation
FewKwargs == {NoKwargs, [k \in {"track_id"} |-> "1"]}

\* the placeholder names of a template (string.Formatter().parse)
FormatArgs(format_url) ==
    {format_url[i].s : i \in {j \in 1..Len(format_url) : format_url[j].ph}}

\* format_url.format(**args) raises KeyError when a placeholder has no argument
FormatRaises(format_url, kwargs) == ~(FormatArgs(format_url) \subseteq DOMAIN kwargs)

\* the URL _format_url_and_remove_params returns: base + format_url.format(**args)
FormatUrl(format_url, kwargs) ==
    <<base>> \o [i \in 1..Len(format_url) |->
                    IF format_url[i].ph THEN kwargs[format_url[i].s] ELSE format_url[i].s]

\* _format_url_and_remove_params leaving kwargs as it found it
RemoveParamsKeepsAll(format_url, kwargs) == kwargs

\* kwargs after _format_url_and_remove_params popped the placeholder keys
RemoveParams(format_url, kwargs) ==
    [k \in DOMAIN kwargs \ FormatArgs(format_url) |-> kwargs[k]]

\* params = kwargs; params["client_id"] = client.client_id
InitialParams(format_url, kwargs, cid) ==
    LET rest == RemoveParams(format_url, kwargs) IN
    [k \in DOMAIN rest \cup {"client_id"} |->
        IF k = "client_id" THEN <<cid>> ELSE <<rest[k]>>]

\* params[name] = value when value is not None (offset, limit)
WithOptional(ps, name, value) ==
    IF value = "" THEN ps
    ELSE [k \in DOMAIN ps \cup {name} |-> IF k = name THEN <<value>> ELSE ps[k]]

----------------------------------------------------------------------------
(* Cursors: next_href, urlparse, parse_qs, urljoin *)

NoHref == [none |-> TRUE, origin |-> "", path |-> <<>>, query |-> <<>>]
Href(path, query) == [none |-> FALSE, origin |-> base, path |-> path, query |-> query]

\* the next_href values a collection response may carry
HrefInputs ==
    {NoHref,
     Href(<<"/search">>, <<<<"offset", "10">>, <<"limit", "">>>>),
     Href(<<"/next">>, <<<<"client_id", "stale">>, <<"offset", "20">>, <<"offset", "30">>>>)}

NoParams == [k \in {} |-> <<>>]

\* urllib.parse.parse_qs: values of one key are collected in order, and a
\* pair with a blank value is dropped (keep_blank_values is False)
RECURSIVE parse_qs(_)
parse_qs(query) ==
    IF query = <<>> THEN NoParams
    ELSE LET front == parse_qs(SubSeq(query, 1, Len(query) - 1))
             k == query[Len(query)][1]
             v == query[Len(query)][2]
         IN IF v = "" THEN front
            ELSE [x \in DOMAIN front \cup {k} |->
                    IF x = k
                    THEN (IF k \in DOMAIN front THEN Append(front[k], v) ELSE <<v>>)
                    ELSE front[x]]

\* urljoin(resource_url, urlparse(resource_url).path): the URL without its
\* query; for None, urljoin returns the parsed (empty) path
urljoin(href) == IF href.none THEN <<>> ELSE <<href.origin>> \o href.path

\* the cursor parameters with the client_id of the previous request kept
NextParamsKeepsClientId(href, cid) ==
    LET qs == parse_qs(href.query) IN
    [k \in DOMAIN qs \cup {"client_id"} |->
        IF k = "client_id" THEN params["client_id"] ELSE qs[k]]

\* the params of the follow-up request: parse_qs of the cursor's query, then
\* params["client_id"] = [client.client_id]
NextParams(href, cid) ==
    LET qs == parse_qs(href.query) IN
    [k \in DOMAIN qs \cup {"client_id"} |-> IF k = "client_id" THEN <<cid>> ELSE qs[k]]

----------------------------------------------------------------------------
(* HTTP *)

\* the response statuses of the model
Statuses == {200, 304, 400, 401, 404, 500}

\* the statuses the request shapes test for: r.status in (400, 404, 500)
EmptyStatuses == {400, 404, 500}

\* aiohttp with raise_for_status=True raises ClientResponseError for a
\* status of 400 or more before the body of the "async with" is entered
SessionRaises(status) == status >= 400

\* requests.Response.raise_for_status raises HTTPError for 400 <= status < 600
RaiseForStatus(status) == 400 <= status /\ status < 600

\* the json= argument of a request that sends no body
NoJson == [operationName |-> "", query |-> "", variables |-> <<>>]

NoRequest ==
    [shape |-> "", method |-> "", url |-> <<>>, params |-> NoParams,
     headers |-> NoHeaders, json |-> NoJson]

----------------------------------------------------------------------------
(* Outcomes of a call, as its caller sees them *)

NoResult == [kind |-> "", val |-> NoValue, vals |-> <<>>, err |-> ""]
Returned(v) == [kind |-> "value", val |-> v, vals |-> <<>>, err |-> ""]
ReturnedNone == [kind |-> "none", val |-> NoValue, vals |-> <<>>, err |-> ""]
ReturnedList(vs) == [kind |-> "list", val |-> NoValue, vals |-> vs, err |-> ""]
Raised(e) == [kind |-> "raise", val |-> NoValue, vals |-> <<>>, err |-> e]
Done == [kind |-> "ok", val |-> NoValue, vals |-> <<>>, err |-> ""]
ReturnedBool(b) ==
    Returned([type |-> "bool", fields |-> {IF b THEN "True" ELSE "False"}])

\* the coroutine object an async function returns when it is called, not awaited
Coroutine == [kind |-> "coroutine", val |-> NoValue, vals |-> <<>>, err |-> ""]

\* return _convert_dict(..., return_type)
ReturnConverted(d, return_type) ==
    LET conv == _convert_dict(d, return_type) IN
    IF conv.ok THEN Returned(conv.val) ELSE Raised(conv.err)

\* the response arrays of the model: empty, one element, two elements in
\* either order, and arrays with an element no candidate type accepts
Collections ==
    {<<>>, <<{"a", "b"}>>, <<{"a"}>>, <<{"a", "b"}, {"a"}>>, <<{"a"}, {"a", "b"}>>,
     <<{"c"}>>, <<{"a"}, {"c"}>>, <<{"c"}, {"a"}>>}

\* ListRequest's loop: resources.append(_convert_dict(resource, return_type))
RECURSIVE ConvertAll(_, _, _, _)
ConvertAll(body, i, return_type, resources) ==
    IF i > Len(body) THEN ReturnedList(resources)
    ELSE LET conv == _convert_dict(body[i], return_type) IN
         IF conv.ok THEN ConvertAll(body, i + 1, return_type, Append(resources, conv.val))
         ELSE Raised(conv.err)

----------------------------------------------------------------------------
(* The state after AsyncCloud.__init__(client_id, auth_token) *)

\* a paginated sequence that was never created
NoSequence ==
    [pc |-> "none", endpoint |-> SearchRequest,
     call_kwargs |-> [kwargs |-> NoKwargs, offset |-> "", limit |-> ""],
     resource_url |-> <<>>, params |-> NoParams, data |-> <<>>, idx |-> 0,
     next_href |-> NoHref, yielded |-> <<>>, served |-> <<>>, gen_error |-> "",
     nreq |-> 0, held |-> 0, released |-> 0]

Init ==
    \E auth_token \in TokenInputs :
        /\ client_id = "cid"
        /\ _auth_token = auth_token
        \* self.use_auth = bool(auth_token)
        /\ _authorization = UseAuthAuthorization(Truthy(auth_token), auth_token)
        /\ session_headers = UseAuthHeaders(Truthy(auth_token), auth_token, GetDefaultHeaders)
        /\ pc = "none"
        /\ endpoint = SearchRequest
        /\ call_kwargs = [kwargs |-> NoKwargs, offset |-> "", limit |-> ""]
        /\ resource_url = <<>>
        /\ params = NoParams
        /\ data = <<>>
        /\ idx = 0
        /\ next_href = NoHref
        /\ yielded = <<>>
        /\ served = <<>>
        /\ gen_error = ""
        /\ nreq = 0
        /\ last_request = NoRequest
        /\ last_status = 0
        /\ last_body = <<>>
        /\ result = NoResult
        /\ phase = "running"
        \* self.session = aiohttp.ClientSession(headers=headers)
        /\ session = "open"
        /\ sessions_created = 1
        /\ session_closes = 0
        \* atexit.register(lambda: asyncio.run(self.session.close()))
        /\ atexit_handlers = 1
        /\ bootstrap_fetches = 0
        /\ held = 0
        /\ released = 0
        /\ ec_pc = "none"
        /\ track_comments = <<>>
        /\ comments = <<>>
        /\ chunk = <<>>
        /\ pending = <<>>
        /\ emitted = <<>>
        /\ queries = <<>>
        /\ pulled = 0
        /\ other = NoSequence

\* a caller starts a new operation: the previous generator is dropped
NoGenerator ==
    /\ pc' = "none"
    /\ call_kwargs' = [kwargs |-> NoKwargs, offset |-> "", limit |-> ""]
    /\ resource_url' = <<>>
    /\ params' = NoParams
    /\ data' = <<>>
    /\ idx' = 0
    /\ next_href' = NoHref
    /\ yielded' = <<>>
    /\ served' = <<>>
    /\ gen_error' = ""

\* no paginated sequence is being consumed
Idle == pc \in {"none", "done", "raised", "closed"}

\* the client is constructed and the interpreter has not exited
Running == phase = "running"

----------------------------------------------------------------------------
(* Authentication operations (asoundcloud.py) *)

\* auth_token setter
SetAuthToken(new_auth_token) ==
    /\ UNCHANGED <<ecVars, other>>
    /\ Running
    /\ UNCHANGED <<lifeVars, respVars>>
    /\ _authorization' = DerivedAuthorization(new_auth_token)
    /\ _auth_token' = NormalizeToken(new_auth_token)
    /\ result' = Done
    /\ UNCHANGED <<client_id, session_headers, genVars, nreq, last_request, last_status, last_body>>

\* auth_token deleter: self.auth_token = None
DelAuthToken == SetAuthToken(NoneStr)

\* use_auth setter
SetUseAuth(value) ==
    /\ UNCHANGED <<ecVars, other>>
    /\ Running
    /\ UNCHANGED <<lifeVars, respVars>>
    /\ IF UseAuthRaises(value, _auth_token)
       THEN /\ result' = Raised("ValueError")
            /\ UNCHANGED <<clientVars, genVars, nreq, last_request, last_status, last_body>>
       ELSE /\ _authorization' = UseAuthAuthorization(value, _auth_token)
            /\ session_headers' = UseAuthHeaders(value, _auth_token, session_headers)
            /\ result' = Done
            /\ UNCHANGED <<client_id, _auth_token, genVars, nreq, last_request, last_status, last_body>>

----------------------------------------------------------------------------
(* SingleRequest, ListRequest, GraphQLRequest (arequests.py) *)

HttpRequest(shape, method, url, ps, headers, json) ==
    [shape |-> shape, method |-> method, url |-> url, params |-> ps,
     headers |-> headers, json |-> json]

\* what SingleRequest.__call__ returns or raises once the response is in
SingleOutcome(return_type, status, body) ==
    IF SessionRaises(status) THEN Raised("ClientResponseError")
    ELSE IF status \in EmptyStatuses THEN ReturnedNone
    ELSE ReturnConverted(body, return_type)

\* SingleRequest.__call__(client, **kwargs), answered with (status, body)
SingleCall(ep, kwargs, status, body) ==
    /\ UNCHANGED <<ecVars, other>>
    /\ Running
    /\ Idle
    /\ NoGenerator
    /\ endpoint' = ep
    /\ UNCHANGED lifeVars
    \* "async with ... as r" releases the response on every exit of its body
    /\ held' = 0
    /\ IF FormatRaises(ep.format_url, kwargs)
       THEN /\ result' = Raised("KeyError")
            /\ nreq' = 0
            /\ released' = 0
            /\ last_request' = NoRequest
            /\ last_status' = 0
            /\ last_body' = <<>>
       ELSE /\ nreq' = 1
            /\ released' = 1
            /\ last_request' =
                 HttpRequest("single", ep.method, FormatUrl(ep.format_url, kwargs),
                             InitialParams(ep.format_url, kwargs, client_id),
                             session_headers, NoJson)
            /\ last_status' = status
            /\ last_body' = <<body>>
            /\ result' = SingleOutcome(ep.return_type, status, body)
    /\ UNCHANGED clientVars

\* the answers to a DELETE of a playlist: 204 No Content, or 404; the body is
\* empty, or a JSON object that happens to carry a status_code
DeleteStatuses == {204, 404}
DeleteBodies == {{}, {"status_code"}}

\* AsyncCloud.delete_playlist(playlist_id), answered with (status, body)
delete_playlist(status, body) ==
    SingleCall(DeletePlaylistRequest, [k \in {"playlist_id"} |-> "1"], status, body)

\* what ListRequest.__call__ returns or raises once the response is in
ListOutcome(return_type, status, body) ==
    IF SessionRaises(status) THEN Raised("ClientResponseError")
    ELSE IF status \in EmptyStatuses THEN ReturnedList(<<>>)
    ELSE ConvertAll(body, 1, return_type, <<>>)

\* ListRequest.__call__(client, **kwargs), answered with (status, body)
ListCall(ep, kwargs, status, body) ==
    /\ UNCHANGED <<ecVars, other>>
    /\ Running
    /\ Idle
    /\ NoGenerator
    /\ endpoint' = ep
    /\ UNCHANGED lifeVars
    \* "async with ... as r" releases the response on every exit of its body
    /\ held' = 0
    /\ IF FormatRaises(ep.format_url, kwargs)
       THEN /\ result' = Raised("KeyError")
            /\ nreq' = 0
            /\ released' = 0
            /\ last_request' = NoRequest
            /\ last_status' = 0
            /\ last_body' = <<>>
       ELSE /\ nreq' = 1
            /\ released' = 1
            /\ last_request' =
                 HttpRequest("list", "GET", FormatUrl(ep.format_url, kwargs),
                             InitialParams(ep.format_url, kwargs, client_id),
                             MergeHeaders(session_headers, GetDefaultHeaders), NoJson)
            /\ last_status' = status
            /\ last_body' = body
            /\ result' = ListOutcome(ep.return_type, status, body)
    /\ UNCHANGED clientVars

\* the variables of a GraphQL call: asdict(query_args)
QueryArgInputs == {<<"sc:comment:1">>, <<"sc:comment:1", "sc:comment:2">>}

\* the "data" fields a GraphQL response may carry
GraphQLPayloads == {{"user", "creator"}, {"user"}}

\* headers = client._get_default_headers(); headers["Apollographql-Client-Name"] = "v2"
GraphQLHeaders == SetHeader(GetDefaultHeaders, "Apollographql-Client-Name", Str(<<"v2">>))

\* GraphQLOutcome with r.raise_for_status() ahead of the empty-status test
GraphQLOutcomeRaisesFirst(return_type, status, body) ==
    IF RaiseForStatus(status) THEN Raised("HTTPError")
    ELSE IF status \in EmptyStatuses THEN ReturnedNone
    ELSE ReturnConverted(body, return_type)

\* what GraphQLRequest.__call__ returns or raises once the response is in
GraphQLOutcome(return_type, status, body) ==
    IF status \in EmptyStatuses THEN ReturnedNone
    ELSE IF RaiseForStatus(status) THEN Raised("HTTPError")
    ELSE ReturnConverted(body, return_type)

\* GraphQLRequest.__call__(client, query_args), answered with (status, data)
GraphQLCall(ep, query_args, status, body) ==
    /\ UNCHANGED <<ecVars, other>>
    /\ Running
    /\ Idle
    /\ NoGenerator
    /\ endpoint' = ep
    /\ UNCHANGED lifeVars
    \* "with requests.post(...) as r" closes the response on every exit of its body
    /\ held' = 0
    /\ released' = 1
    /\ nreq' = 1
    /\ last_request' =
         HttpRequest("graphql", "POST", <<graphql_base>>,
                     [k \in {"client_id"} |-> <<client_id>>], GraphQLHeaders,
                     [operationName |-> ep.operation_name,
                      query |-> ep.query_template_str,
                      variables |-> query_args])
    /\ last_status' = status
    /\ last_body' = <<body>>
    /\ result' = GraphQLOutcome(ep.return_type, status, body)
    /\ UNCHANGED clientVars

----------------------------------------------------------------------------
(* CollectionRequest (arequests.py): an async generator *)

\* the offset= and limit= arguments of a call ("" stands for None)
OffsetInputs == {"", "0"}
LimitInputs == {"", "5"}

\* CollectionCall as a plain function that fetches its first page when called
CollectionCallEager(ep, kwargs, offset, limit) ==
    /\ UNCHANGED <<ecVars, other>>
    /\ Running
    /\ Idle
    /\ UNCHANGED lifeVars
    /\ held' = 0
    /\ released' = 0
    /\ pc' = "created"
    /\ endpoint' = ep
    /\ call_kwargs' = [kwargs |-> kwargs, offset |-> offset, limit |-> limit]
    /\ resource_url' = <<>>
    /\ params' = NoParams
    /\ data' = <<>>
    /\ idx' = 0
    /\ next_href' = NoHref
    /\ yielded' = <<>>
    /\ served' = <<>>
    /\ gen_error' = ""
    /\ nreq' = 1
    /\ last_request' =
         HttpRequest("collection", "GET", <<base>>, NoParams, session_headers, NoJson)
    /\ last_status' = 200
    /\ last_body' = <<>>
    /\ result' = NoResult
    /\ UNCHANGED clientVars

\* CollectionRequest.__call__(client, offset=, limit=, **kwargs): calling an
\* async generator function runs none of its body
CollectionCall(ep, kwargs, offset, limit) ==
    /\ UNCHANGED <<ecVars, other>>
    /\ Running
    /\ Idle
    /\ UNCHANGED lifeVars
    /\ held' = 0
    /\ released' = 0
    /\ pc' = "created"
    /\ endpoint' = ep
    /\ call_kwargs' = [kwargs |-> kwargs, offset |-> offset, limit |-> limit]
    /\ resource_url' = <<>>
    /\ params' = NoParams
    /\ data' = <<>>
    /\ idx' = 0
    /\ next_href' = NoHref
    /\ yielded' = <<>>
    /\ served' = <<>>
    /\ gen_error' = ""
    /\ nreq' = 0
    /\ last_request' = NoRequest
    /\ last_status' = 0
    /\ last_body' = <<>>
    /\ result' = NoResult
    /\ UNCHANGED clientVars

\* the locals of the generator the consumer attends to (resource_url, params,
\* data, the position in the for loop), its endpoint and arguments, and
\* what it has requested, received, yielded and holds
ThisSequence ==
    [pc |-> pc, endpoint |-> endpoint, call_kwargs |-> call_kwargs,
     resource_url |-> resource_url, params |-> params, data |-> data, idx |-> idx,
     next_href |-> next_href, yielded |-> yielded, served |-> served,
     gen_error |-> gen_error, nreq |-> nreq, held |-> held, released |-> released]

\* the consumer turns from one sequence to the other: each generator object
\* keeps its own frame; a generator is left only where it is suspended
\* (pc = "fetch" is a point inside one run of the body, between the
\* computation of params and session.get, where nothing else runs)
Switch ==
    /\ Running
    /\ pc # "fetch"
    /\ pc # "none" \/ other.pc # "none"
    /\ other' = ThisSequence
    /\ pc' = other.pc
    /\ endpoint' = other.endpoint
    /\ call_kwargs' = other.call_kwargs
    /\ resource_url' = other.resource_url
    /\ params' = other.params
    /\ data' = other.data
    /\ idx' = other.idx
    /\ next_href' = other.next_href
    /\ yielded' = other.yielded
    /\ served' = other.served
    /\ gen_error' = other.gen_error
    /\ nreq' = other.nreq
    /\ held' = other.held
    /\ released' = other.released
    /\ UNCHANGED <<clientVars, lifeVars, ecVars, last_request, last_status, last_body,
                   result>>

\* client.client_id = new, by the consumer between two steps of a sequence
SetClientId(new) ==
    /\ Running
    /\ pc # "fetch"
    /\ client_id' = new
    /\ UNCHANGED <<_auth_token, _authorization, session_headers, genVars, lifeVars,
                   respVars, ecVars, other, nreq, last_request, last_status, last_body,
                   result>>

\* GenStart with the failure of the template caught: the sequence just ends
GenStartSwallows ==
    /\ UNCHANGED <<ecVars, other>>
    /\ Running
    /\ pc = "created"
    /\ UNCHANGED <<lifeVars, respVars>>
    /\ IF FormatRaises(endpoint.format_url, call_kwargs.kwargs)
       THEN /\ pc' = "done"
            /\ gen_error' = ""
            /\ UNCHANGED <<resource_url, params>>
       ELSE /\ resource_url' = FormatUrl(endpoint.format_url, call_kwargs.kwargs)
            /\ params' =
                 WithOptional(
                     WithOptional(
                         InitialParams(endpoint.format_url, call_kwargs.kwargs, client_id),
                         "offset", call_kwargs.offset),
                     "limit", call_kwargs.limit)
            /\ pc' = "fetch"
            /\ gen_error' = ""
    /\ call_kwargs' = [kwargs |-> NoKwargs, offset |-> "", limit |-> ""]
    /\ UNCHANGED <<clientVars, endpoint, data, idx, next_href, yielded, served,
                   nreq, last_request, last_status, last_body, result>>

\* the first __anext__: the body runs from its start to the while loop
GenStart ==
    /\ UNCHANGED <<ecVars, other>>
    /\ Running
    /\ pc = "created"
    /\ UNCHANGED <<lifeVars, respVars>>
    /\ IF FormatRaises(endpoint.format_url, call_kwargs.kwargs)
       THEN /\ pc' = "raised"
            /\ gen_error' = "KeyError"
            /\ UNCHANGED <<resource_url, params>>
       ELSE /\ resource_url' = FormatUrl(endpoint.format_url, call_kwargs.kwargs)
            /\ params' =
                 WithOptional(
                     WithOptional(
                         InitialParams(endpoint.format_url, call_kwargs.kwargs, client_id),
                         "offset", call_kwargs.offset),
                     "limit", call_kwargs.limit)
            /\ pc' = "fetch"
            /\ gen_error' = ""
    /\ call_kwargs' = [kwargs |-> NoKwargs, offset |-> "", limit |-> ""]
    /\ UNCHANGED <<clientVars, endpoint, data, idx, next_href, yielded, served,
                   nreq, last_request, last_status, last_body, result>>

\* ForLoop with an off-by-one loop bound: the last element of every page is skipped
ForLoopSkipsLast(collection, i, href) ==
    IF i + 1 < Len(collection)
    THEN LET conv == _convert_dict(collection[i + 1], endpoint.return_type) IN
         IF conv.ok
         THEN /\ pc' = "suspended"
              \* the yield is inside the "async with": the response stays acquired
              /\ held' = 1
              /\ UNCHANGED released
              /\ idx' = i + 1
              /\ yielded' = Append(yielded, conv.val)
              /\ gen_error' = ""
              /\ UNCHANGED <<resource_url, params>>
         ELSE /\ pc' = "raised"
              /\ held' = 0
              /\ released' = released + 1
              /\ gen_error' = conv.err
              /\ idx' = i + 1
              /\ UNCHANGED <<yielded, resource_url, params>>
    ELSE /\ resource_url' = urljoin(href)
         /\ held' = 0
         /\ released' = released + 1
         /\ params' = NextParams(href, client_id)
         /\ pc' = IF urljoin(href) # <<>> THEN "fetch" ELSE "done"
         /\ idx' = i
         /\ gen_error' = ""
         /\ UNCHANGED yielded

\* ForLoop that takes a page with an empty collection as the end of the sequence
ForLoopEndsOnEmptyPage(collection, i, href) ==
    IF i < Len(collection)
    THEN LET conv == _convert_dict(collection[i + 1], endpoint.return_type) IN
         IF conv.ok
         THEN /\ pc' = "suspended"
              /\ held' = 1
              /\ UNCHANGED released
              /\ idx' = i + 1
              /\ yielded' = Append(yielded, conv.val)
              /\ gen_error' = ""
              /\ UNCHANGED <<resource_url, params>>
         ELSE /\ pc' = "raised"
              /\ held' = 0
              /\ released' = released + 1
              /\ gen_error' = conv.err
              /\ idx' = i + 1
              /\ UNCHANGED <<yielded, resource_url, params>>
    ELSE /\ resource_url' = urljoin(href)
         /\ held' = 0
         /\ released' = released + 1
         /\ params' = NextParams(href, client_id)
         /\ pc' = IF urljoin(href) # <<>> /\ collection # <<>> THEN "fetch" ELSE "done"
         /\ idx' = i
         /\ gen_error' = ""
         /\ UNCHANGED yielded

\* the for loop over data["collection"] from position i, and the code after
\* it: yield the next record, or follow next_href
ForLoop(collection, i, href) ==
    IF i < Len(collection)
    THEN LET conv == _convert_dict(collection[i + 1], endpoint.return_type) IN
         IF conv.ok
         THEN /\ pc' = "suspended"
              \* the yield is inside the "async with": the response stays acquired
              /\ held' = 1
              /\ UNCHANGED released
              /\ idx' = i + 1
              /\ yielded' = Append(yielded, conv.val)
              /\ gen_error' = ""
              /\ UNCHANGED <<resource_url, params>>
         ELSE /\ pc' = "raised"
              /\ held' = 0
              /\ released' = released + 1
              /\ gen_error' = conv.err
              /\ idx' = i + 1
              /\ UNCHANGED <<yielded, resource_url, params>>
    ELSE /\ resource_url' = urljoin(href)
         /\ held' = 0
         /\ released' = released + 1
         /\ params' = NextParams(href, client_id)
         /\ pc' = IF urljoin(href) # <<>> THEN "fetch" ELSE "done"
         /\ idx' = i
         /\ gen_error' = ""
         /\ UNCHANGED yielded

\* client.session.get(resource_url, params=params, raise_for_status=True),
\* answered with (status, {"collection": collection, "next_href": href})
GenFetch(status, collection, href) ==
    /\ UNCHANGED <<ecVars, other>>
    /\ Running
    /\ pc = "fetch"
    /\ UNCHANGED lifeVars
    /\ nreq < MaxPages
    /\ nreq' = nreq + 1
    /\ last_request' =
         HttpRequest("collection", "GET", resource_url, params, session_headers, NoJson)
    /\ last_status' = status
    /\ last_body' = collection
    /\ IF SessionRaises(status)
       THEN /\ pc' = "raised"
            /\ gen_error' = "ClientResponseError"
            \* aiohttp releases the response before it raises
            /\ held' = 0
            /\ released' = released + 1
            /\ UNCHANGED <<resource_url, params, data, idx, next_href, yielded, served>>
       ELSE IF status \in EmptyStatuses
       THEN /\ pc' = "done"
            /\ held' = 0
            /\ released' = released + 1
            /\ UNCHANGED <<resource_url, params, data, idx, next_href, yielded, served,
                           gen_error>>
       ELSE /\ data' = collection
            /\ next_href' = href
            /\ served' = served \o collection
            /\ ForLoop(collection, 0, href)
    /\ UNCHANGED <<clientVars, endpoint, call_kwargs, result>>

\* __anext__ on the generator suspended at its yield
GenResume ==
    /\ UNCHANGED <<ecVars, other>>
    /\ Running
    /\ pc = "suspended"
    /\ UNCHANGED lifeVars
    /\ ForLoop(data, idx, next_href)
    /\ UNCHANGED <<clientVars, endpoint, call_kwargs, data, next_href, served,
                   nreq, last_request, last_status, last_body, result>>

\* aclose() that ends the generator without leaving its "async with"
GenCloseKeepsResponse ==
    /\ UNCHANGED <<ecVars, other>>
    /\ Running
    /\ pc \in {"created", "suspended"}
    /\ pc' = "closed"
    /\ UNCHANGED <<lifeVars, respVars>>
    /\ UNCHANGED <<clientVars, endpoint, call_kwargs, resource_url, params, data, idx,
                   next_href, yielded, served, gen_error, nreq, last_request,
                   last_status, last_body, result>>

\* the consumer stops early: aclose() on a generator that is not running
GenClose ==
    /\ UNCHANGED <<ecVars, other>>
    /\ Running
    /\ pc \in {"created", "suspended"}
    /\ pc' = "closed"
    /\ UNCHANGED lifeVars
    \* GeneratorExit is thrown at the yield and leaves the "async with"
    /\ held' = 0
    /\ released' = released + held
    /\ UNCHANGED <<clientVars, endpoint, call_kwargs, resource_url, params, data, idx,
                   next_href, yielded, served, gen_error, nreq, last_request,
                   last_status, last_body, result>>

----------------------------------------------------------------------------
(* Construction and shutdown of the client (asoundcloud.py) *)

\* the client_id argument of AsyncCloud(...)
ClientIdInputs == {NoneStr, Str(<<>>), Str(<<"cid">>)}

\* what requests.get gives generate_client_id: no connection, an error
\* status, a page in which the regular expression finds nothing, a page in
\* which it finds a match
FetchInputs ==
    {[connected |-> FALSE, status |-> 0, matches |-> FALSE],
     [connected |-> TRUE, status |-> 500, matches |-> FALSE],
     [connected |-> TRUE, status |-> 200, matches |-> FALSE],
     [connected |-> TRUE, status |-> 200, matches |-> TRUE]}

Generated(cid, fetches) == [ok |-> TRUE, client_id |-> cid, err |-> "", fetches |-> fetches]
NotGenerated(e, fetches) == [ok |-> FALSE, client_id |-> "", err |-> e, fetches |-> fetches]

\* AsyncCloud.generate_client_id, given the landing page and the asset script
generate_client_id(landing, script) ==
    IF ~landing.connected THEN NotGenerated("ConnectionError", 1)
    ELSE IF RaiseForStatus(landing.status) THEN NotGenerated("HTTPError", 1)
    ELSE IF ~landing.matches THEN NotGenerated("ClientIDGenerationError", 1)
    ELSE IF ~script.connected THEN NotGenerated("ConnectionError", 2)
    ELSE IF RaiseForStatus(script.status) THEN NotGenerated("HTTPError", 2)
    ELSE IF ~script.matches THEN NotGenerated("ClientIDGenerationError", 2)
    ELSE Generated("generated", 2)

\* the state before AsyncCloud(...) is called
InitBoot ==
    /\ client_id = ""
    /\ _auth_token = NoneStr
    /\ _authorization = NoneStr
    /\ session_headers = NoHeaders
    /\ pc = "none"
    /\ endpoint = SearchRequest
    /\ call_kwargs = [kwargs |-> NoKwargs, offset |-> "", limit |-> ""]
    /\ resource_url = <<>>
    /\ params = NoParams
    /\ data = <<>>
    /\ idx = 0
    /\ next_href = NoHref
    /\ yielded = <<>>
    /\ served = <<>>
    /\ gen_error = ""
    /\ nreq = 0
    /\ last_request = NoRequest
    /\ last_status = 0
    /\ last_body = <<>>
    /\ result = NoResult
    /\ phase = "boot"
    /\ session = "none"
    /\ sessions_created = 0
    /\ session_closes = 0
    /\ atexit_handlers = 0
    /\ bootstrap_fetches = 0
    /\ held = 0
    /\ released = 0
    /\ ec_pc = "none"
    /\ track_comments = <<>>
    /\ comments = <<>>
    /\ chunk = <<>>
    /\ pending = <<>>
    /\ emitted = <<>>
    /\ queries = <<>>
    /\ pulled = 0
    /\ other = NoSequence

\* AsyncCloud.__init__(client_id, auth_token), with the two pages the
\* bootstrap would be served
Construct(client_id_arg, auth_token, landing, script) ==
    /\ UNCHANGED <<ecVars, other>>
    /\ phase = "boot"
    /\ LET bootstrap == ~Truthy(client_id_arg)
           gen == generate_client_id(landing, script)
       IN /\ bootstrap_fetches' = IF bootstrap THEN gen.fetches ELSE 0
          /\ IF bootstrap /\ ~gen.ok
             THEN /\ phase' = "failed"
                  /\ result' = Raised(gen.err)
                  /\ UNCHANGED <<clientVars, session, sessions_created, atexit_handlers>>
             ELSE /\ phase' = "running"
                  /\ client_id' = IF bootstrap THEN gen.client_id ELSE client_id_arg.words[1]
                  /\ _auth_token' = auth_token
                  /\ session' = "open"
                  /\ sessions_created' = sessions_created + 1
                  /\ atexit_handlers' = atexit_handlers + 1
                  \* self.use_auth = bool(auth_token)
                  /\ _authorization' = UseAuthAuthorization(Truthy(auth_token), auth_token)
                  /\ session_headers' =
                       UseAuthHeaders(Truthy(auth_token), auth_token, GetDefaultHeaders)
                  /\ result' = Done
    /\ UNCHANGED <<genVars, nreq, last_request, last_status, last_body, session_closes,
                   respVars>>

\* interpreter exit with the atexit callback lost: the session is left open
ShutdownLeavesOpen ==
    /\ UNCHANGED <<ecVars, other>>
    /\ phase \in {"running", "failed"}
    /\ phase' = "exited"
    /\ atexit_handlers' = 0
    /\ UNCHANGED <<clientVars, genVars, nreq, last_request, last_status, last_body,
                   result, session, sessions_created, session_closes,
                   bootstrap_fetches, respVars>>

\* interpreter exit: every atexit callback runs asyncio.run(self.session.close())
Shutdown ==
    /\ UNCHANGED <<ecVars, other>>
    /\ phase \in {"running", "failed"}
    /\ phase' = "exited"
    /\ session' = IF atexit_handlers > 0 THEN "closed" ELSE session
    /\ session_closes' = session_closes + atexit_handlers
    /\ atexit_handlers' = 0
    /\ UNCHANGED <<clientVars, genVars, nreq, last_request, last_status, last_body,
                   result, sessions_created, bootstrap_fetches, respVars>>

----------------------------------------------------------------------------
(* Validity probes and get_user_by_username (asoundcloud.py) *)

\* a probe that answers False to every failure
ProbeOutcomeSwallows(inner, status) ==
    IF inner.kind = "raise" THEN ReturnedBool(FALSE) ELSE ReturnedBool(TRUE)

\* try: await Request(self, ...); return True
\* except ClientResponseError as err: False for status 401, raise otherwise
ProbeOutcome(inner, status) ==
    IF inner.kind = "raise"
    THEN (IF inner.err = "ClientResponseError" /\ status = 401
          THEN ReturnedBool(FALSE)
          ELSE inner)
    ELSE ReturnedBool(TRUE)

\* the single-resource call of a probe, answered with (status, body) or not
\* answered at all because the connection failed
Probe(ep, kwargs, status, body, connected) ==
    /\ UNCHANGED <<ecVars, other>>
    /\ Running
    /\ Idle
    /\ NoGenerator
    /\ endpoint' = ep
    /\ nreq' = 1
    /\ last_request' =
         HttpRequest("single", ep.method, FormatUrl(ep.format_url, kwargs),
                     InitialParams(ep.format_url, kwargs, client_id),
                     session_headers, NoJson)
    /\ held' = 0
    /\ IF connected
       THEN /\ last_status' = status
            /\ last_body' = <<body>>
            /\ released' = 1
            /\ result' = ProbeOutcome(SingleOutcome(ep.return_type, status, body), status)
       ELSE /\ last_status' = 0
            /\ last_body' = <<>>
            /\ released' = 0
            /\ result' = Raised("ClientConnectionError")
    /\ UNCHANGED <<clientVars, lifeVars>>

\* AsyncCloud.is_client_id_valid
is_client_id_valid(status, body, connected) ==
    Probe(TrackRequest, [k \in {"track_id"} |-> "1032303631"], status, body, connected)

\* AsyncCloud.is_auth_token_valid
is_auth_token_valid(status, body, connected) ==
    Probe(MeRequest, NoKwargs, status, body, connected)

\* if resource and isinstance(resource, User): return resource / else: return None
UserOrNone(resource) ==
    IF resource.kind # "none" /\ resource.kind = "value" /\ resource.val.type = User
    THEN resource
    ELSE ReturnedNone

\* AsyncCloud.get_user_by_username: self.resolve(...) is called without
\* await, so resource is the coroutine object and no request is issued
get_user_by_username ==
    /\ UNCHANGED <<ecVars, other>>
    /\ Running
    /\ Idle
    /\ NoGenerator
    /\ endpoint' = ResolveRequest
    /\ nreq' = 0
    /\ last_request' = NoRequest
    /\ last_status' = 0
    /\ last_body' = <<>>
    /\ result' = UserOrNone(Coroutine)
    /\ UNCHANGED <<clientVars, lifeVars, respVars>>

----------------------------------------------------------------------------
(* get_track_comments_with_interactions (asoundcloud.py): an async generator *)
(* over the comments generator and one GraphQL query per chunk               *)

\* islice(comments, 10): the chunk size
ChunkSize == 10

\* what a GraphQL answer carries: one entry per requested comment, one entry
\* less, or entries whose interactionCounts is None
ResponseKinds == {"full", "short", "nocounts"}

Min(a, b) == IF a < b THEN a ELSE b

\* the items "async for item in islice(itr, stop)" receives
islice(itr, stop) == SubSeq(itr, 1, Min(stop, Len(itr)))

\* an islice that takes one item more from its iterator than it hands on
RemainingSkipsOne(itr, stop) == SubSeq(itr, Min(stop, Len(itr)) + 2, Len(itr))

\* what the iterator has still to yield after islice(itr, stop) was consumed:
\* islice stops asking once it has handed on stop items
Remaining(itr, stop) == SubSeq(itr, Min(stop, Len(itr)) + 1, Len(itr))

\* result.user / result.creator of the answer to a query for the ids
Entries(ids, kind) ==
    IF kind = "short" THEN SubSeq(ids, 1, Len(ids) - 1) ELSE ids

\* the list built from zip(chunk, result.user, result.creator)
CommentsWithInteractions(ids, user, creator) ==
    [i \in 1..Min(Len(ids), Min(Len(user), Len(creator))) |->
        [comment |-> ids[i], user |-> user[i], creator |-> creator[i]]]

\* calling the async generator function runs none of its body; the track has
\* the comments 1..n
get_track_comments_with_interactions(n) ==
    /\ Running
    /\ Idle
    /\ ec_pc \in {"none", "done", "raised"}
    /\ ec_pc' = "created"
    /\ track_comments' = [i \in 1..n |-> i]
    /\ comments' = <<>>
    /\ chunk' = <<>>
    /\ pending' = <<>>
    /\ emitted' = <<>>
    /\ queries' = <<>>
    /\ pulled' = 0
    /\ nreq' = 0
    /\ last_request' = NoRequest
    /\ last_status' = 0
    /\ last_body' = <<>>
    /\ result' = NoResult
    /\ held' = 0
    /\ released' = 0
    /\ UNCHANGED <<clientVars, lifeVars, genVars, other>>

\* the first __anext__: track = await self.get_track(track_id), answered with
\* (status, body); then comments = self.get_track_comments(...)
EcStart(status, body) ==
    /\ Running
    /\ ec_pc = "created"
    /\ nreq' = 1
    /\ last_request' =
         HttpRequest("single", "GET",
                     FormatUrl(TrackRequest.format_url, [k \in {"track_id"} |-> "1"]),
                     InitialParams(TrackRequest.format_url, [k \in {"track_id"} |-> "1"],
                                   client_id),
                     session_headers, NoJson)
    /\ last_status' = status
    /\ last_body' = <<body>>
    /\ held' = 0
    /\ released' = 1
    /\ LET track == SingleOutcome(TrackRequest.return_type, status, body) IN
       IF track.kind = "raise"
       THEN /\ ec_pc' = "raised"
            /\ result' = track
            /\ UNCHANGED comments
       ELSE IF track.kind = "none"
       THEN /\ ec_pc' = "done"
            /\ result' = NoResult
            /\ UNCHANGED comments
       ELSE /\ ec_pc' = "chunk"
            /\ result' = NoResult
            /\ comments' = track_comments
    /\ UNCHANGED <<clientVars, lifeVars, genVars, other, track_comments, chunk, pending,
                   emitted, queries, pulled>>

\* async for item in islice(comments, 10): chunk.append(item)
\* if not chunk: return
EcChunk ==
    /\ Running
    /\ ec_pc = "chunk"
    /\ chunk' = islice(comments, ChunkSize)
    /\ comments' = Remaining(comments, ChunkSize)
    /\ pulled' = pulled + Len(islice(comments, ChunkSize))
    /\ ec_pc' = IF islice(comments, ChunkSize) = <<>> THEN "done" ELSE "query"
    /\ UNCHANGED <<clientVars, lifeVars, genVars, other, respVars, track_comments, pending,
                   emitted, queries, nreq, last_request, last_status, last_body, result>>

\* result = UserInteractionsRequest(self, UserInteractionsQueryParams(...)),
\* answered with (status, entries of the given kind); the zip loop; the
\* first yield of the chunk
EcQuery(status, kind) ==
    /\ Running
    /\ ec_pc = "query"
    /\ nreq' = nreq + 1
    /\ last_request' =
         HttpRequest("graphql", "POST", <<graphql_base>>,
                     [k \in {"client_id"} |-> <<client_id>>], GraphQLHeaders,
                     [operationName |-> UserInteractionsRequest.operation_name,
                      query |-> UserInteractionsRequest.query_template_str,
                      variables |-> chunk])
    /\ last_status' = status
    /\ last_body' = <<{"user", "creator"}>>
    /\ held' = 0
    /\ released' = released + 1
    /\ queries' = Append(queries, [ids |-> chunk, status |-> status, kind |-> kind])
    /\ LET answer == GraphQLOutcome(UserInteractionsRequest.return_type, status,
                                    {"user", "creator"})
           cwi == CommentsWithInteractions(chunk, Entries(chunk, kind),
                                           Entries(chunk, kind))
       IN IF answer.kind = "raise"
          THEN /\ ec_pc' = "raised"
               /\ result' = answer
               /\ UNCHANGED <<pending, emitted>>
          ELSE IF answer.kind = "none"
          THEN /\ ec_pc' = "done"
               /\ result' = NoResult
               /\ UNCHANGED <<pending, emitted>>
          ELSE IF kind = "nocounts"
          THEN /\ ec_pc' = "raised"
               /\ result' = Raised("AssertionError")
               /\ UNCHANGED <<pending, emitted>>
          ELSE IF cwi = <<>>
          THEN /\ ec_pc' = "chunk"
               /\ result' = NoResult
               /\ UNCHANGED <<pending, emitted>>
          ELSE /\ ec_pc' = "suspended"
               /\ result' = NoResult
               /\ emitted' = Append(emitted, cwi[1])
               /\ pending' = Tail(cwi)
    /\ UNCHANGED <<clientVars, lifeVars, genVars, other, track_comments, comments, chunk,
                   pulled>>

\* a resume that collects the next chunk while a result of the current one
\* is still to be yielded
EcResumePrefetches ==
    /\ Running
    /\ ec_pc = "suspended"
    /\ IF Len(pending) = 2
       THEN /\ emitted' = Append(emitted, pending[1])
            /\ pending' = Tail(pending)
            /\ chunk' = islice(comments, ChunkSize)
            /\ comments' = Remaining(comments, ChunkSize)
            /\ pulled' = pulled + Len(islice(comments, ChunkSize))
            /\ UNCHANGED ec_pc
       ELSE IF pending # <<>>
       THEN /\ emitted' = Append(emitted, pending[1])
            /\ pending' = Tail(pending)
            /\ UNCHANGED <<ec_pc, chunk, comments, pulled>>
       ELSE /\ ec_pc' = "chunk"
            /\ UNCHANGED <<emitted, pending, chunk, comments, pulled>>
    /\ UNCHANGED <<clientVars, lifeVars, genVars, other, respVars, track_comments, queries,
                   nreq, last_request, last_status, last_body, result>>

\* __anext__ on the generator suspended at its yield: the next result of the
\* chunk, or back to the head of the while loop
EcResume ==
    /\ Running
    /\ ec_pc = "suspended"
    /\ IF pending # <<>>
       THEN /\ emitted' = Append(emitted, pending[1])
            /\ pending' = Tail(pending)
            /\ UNCHANGED ec_pc
       ELSE /\ ec_pc' = "chunk"
            /\ UNCHANGED <<emitted, pending>>
    /\ UNCHANGED <<clientVars, lifeVars, genVars, other, respVars, track_comments, comments,
                   chunk, queries, pulled, nreq, last_request, last_status,
                   last_body, result>>

----------------------------------------------------------------------------
(* The specifications *)

\* the state after AsyncCloud.__init__("cid", "abc")
InitPage == Init /\ _auth_token = Str(<<"abc">>)

\* the paginated-collection shape alone, against every response of the model
\* (a response that makes the session raise carries no collection)
NextPage ==
    \/ \E ep \in CollectionEndpoints, kwargs \in KwargInputs, offset \in OffsetInputs,
          limit \in LimitInputs : CollectionCall(ep, kwargs, offset, limit)
    \/ GenStart
    \/ \E status \in {st \in Statuses : ~SessionRaises(st)},
          collection \in Collections, href \in HrefInputs :
          GenFetch(status, collection, href)
    \/ \E status \in {st \in Statuses : SessionRaises(st)} :
          GenFetch(status, <<>>, NoHref)
    \/ GenResume
    \/ GenClose

SpecPage == InitPage /\ [][NextPage]_vars

\* the single-resource, bulk-list and GraphQL shapes, against every response
NextCall ==
    \/ \E ep \in SingleEndpoints, kwargs \in KwargInputs, status \in Statuses,
          body \in Payloads : SingleCall(ep, kwargs, status, body)
    \/ \E ep \in ListEndpoints, kwargs \in KwargInputs, status \in Statuses,
          body \in Collections : ListCall(ep, kwargs, status, body)
    \/ \E query_args \in QueryArgInputs, status \in Statuses, body \in GraphQLPayloads :
          GraphQLCall(UserInteractionsRequest, query_args, status, body)
    \/ \E status \in DeleteStatuses, body \in DeleteBodies : delete_playlist(status, body)

SpecCall == InitPage /\ [][NextCall]_vars

\* the responses of the specification that interleaves every operation: an
\* empty status and a success, a payload that decodes and one that does not
FewStatuses == {200, 404}
FewPayloads == {{"a"}, {}}
FewCollections == {<<>>, <<{"a"}>>, <<{"a"}, {"c"}>>}
FewHrefs == {NoHref, Href(<<"/next">>, <<<<"offset", "20">>>>)}

\* the client's authentication operations interleaved with every request shape
Next ==
    \/ \E new \in TokenInputs : SetAuthToken(new)
    \/ DelAuthToken
    \/ \E value \in BOOLEAN : SetUseAuth(value)
    \/ \E ep \in SingleEndpoints, kwargs \in FewKwargs, status \in FewStatuses,
          body \in FewPayloads : SingleCall(ep, kwargs, status, body)
    \/ \E ep \in ListEndpoints, kwargs \in FewKwargs, status \in FewStatuses,
          body \in FewCollections : ListCall(ep, kwargs, status, body)
    \/ \E status \in FewStatuses, body \in GraphQLPayloads :
          GraphQLCall(UserInteractionsRequest, <<"sc:comment:1">>, status, body)
    \/ \E ep \in CollectionEndpoints, kwargs \in FewKwargs :
          CollectionCall(ep, kwargs, "", "")
    \/ GenStart
    \/ \E status \in FewStatuses, collection \in FewCollections, href \in FewHrefs :
          GenFetch(status, collection, href)
    \/ GenResume
    \/ GenClose

Spec == Init /\ [][Next]_vars

\* the payloads a probe is answered with
ProbePayloads == {{"a"}, {"c"}}

\* the values assigned to auth_token: TokenInputs and a second token
SetterInputs == TokenInputs \cup {Str(<<"xyz">>), Str(<<"OAuth", "xyz">>)}

\* the life of one client: construction, the authentication operations, the
\* probes, one call of every request shape, and interpreter exit
NextClient ==
    \/ \E client_id_arg \in ClientIdInputs, auth_token \in TokenInputs,
          landing \in FetchInputs, script \in FetchInputs :
          Construct(client_id_arg, auth_token, landing, script)
    \/ \E new \in SetterInputs : SetAuthToken(new)
    \/ DelAuthToken
    \/ \E value \in BOOLEAN : SetUseAuth(value)
    \/ \E status \in Statuses, body \in ProbePayloads, connected \in BOOLEAN :
          is_client_id_valid(status, body, connected)
    \/ \E status \in Statuses, body \in ProbePayloads, connected \in BOOLEAN :
          is_auth_token_valid(status, body, connected)
    \/ get_user_by_username
    \/ \E status \in FewStatuses :
          SingleCall(ResolveRequest, NoKwargs, status, {"c"})
    \/ \E status \in FewStatuses : ListCall(TracksRequest, NoKwargs, status, <<{"a"}>>)
    \/ \E status \in FewStatuses :
          GraphQLCall(UserInteractionsRequest, <<"sc:comment:1">>, status,
                      {"user", "creator"})
    \/ CollectionCall(SearchRequest, NoKwargs, "", "")
    \/ GenStart
    \/ \E status \in FewStatuses, href \in FewHrefs : GenFetch(status, <<{"a"}>>, href)
    \/ GenResume
    \/ GenClose
    \/ Shutdown

SpecClient == InitBoot /\ [][NextClient]_vars

\* the statuses a GraphQL query of the enriched-comments operation is answered with
QueryStatuses == {200, 401, 404}

\* the enriched-comments operation over tracks of up to MaxComments comments
NextComments ==
    \/ \E n \in 0..MaxComments : get_track_comments_with_interactions(n)
    \/ \E status \in Statuses, body \in FewPayloads : EcStart(status, body)
    \/ EcChunk
    \/ \E status \in QueryStatuses, kind \in ResponseKinds : EcQuery(status, kind)
    \/ EcResume

SpecComments == InitPage /\ [][NextComments]_vars

\* two sequences of one endpoint definition, consumed in any interleaving
\* while the client's client_id and authentication change
TwoKwargs == {NoKwargs, [k \in {"q"} |-> "x"]}
TwoCollections == {<<>>, <<{"a", "b"}, {"a"}>>}
TwoClientIds == {"cid", "cid2"}

NextSequences ==
    \/ \E kwargs \in TwoKwargs : CollectionCall(SearchRequest, kwargs, "", "")
    \/ GenStart
    \/ \E collection \in TwoCollections, href \in FewHrefs : GenFetch(200, collection, href)
    \/ GenResume
    \/ Switch
    \/ \E new \in TwoClientIds : SetClientId(new)
    \/ \E value \in BOOLEAN : SetUseAuth(value)

SpecSequences == InitPage /\ [][NextSequences]_vars

\* a server whose cursor chain is finite and whose every answer is 200 with
\* records of the endpoint's type: a page may name a next page, the page
\* that closes the chain names none
FiniteChainFetch(collection, href) ==
    /\ nreq + 1 = MaxPages => href.none
    /\ GenFetch(200, collection, href)

FairCollections == {<<>>, <<{"a"}>>, <<{"a", "b"}, {"a"}>>}

NextFair ==
    \/ \E kwargs \in TwoKwargs : CollectionCall(SearchRequest, kwargs, "", "")
    \/ GenStart
    \/ \E collection \in FairCollections, href \in HrefInputs :
          FiniteChainFetch(collection, href)
    \/ GenResume

\* the consumer keeps asking for the next record and the server answers
\* every request
SpecFair ==
    /\ InitPage
    /\ [][NextFair]_vars
    /\ WF_vars(GenStart)
    /\ WF_vars(GenResume)
    /\ WF_vars(\E collection \in FairCollections, href \in HrefInputs :
                  FiniteChainFetch(collection, href))

----------------------------------------------------------------------------
(* The claims *)

\* r is what the first candidate of return_type that accepts d constructs from d
IsDecodedAs(r, d, return_type) ==
    \E i \in 1..Len(return_type.args) :
        /\ FromDictOk(return_type.args[i], d)
        /\ \A j \in 1..(i - 1) : ~FromDictOk(return_type.args[j], d)
        /\ r = FromDict(return_type.args[i], d)

\* C1: a paginated sequence that has ended has yielded the decoded elements
\* of every page it was served, page after page and in array order, and the
\* last page carried no next_href; it asks for a further page only when the
\* last page carried a next_href; and it raises only when the template lacks
\* an argument, the session raises for the status, or an element does not decode.
C1_PagesYieldedInOrder ==
    /\ pc = "done" =>
          /\ next_href.none
          /\ Len(yielded) = Len(served)
          /\ \A i \in 1..Len(served) :
                IsDecodedAs(yielded[i], served[i], endpoint.return_type)
    /\ (pc = "fetch" /\ nreq > 0) =>
          /\ ~next_href.none
          /\ Len(yielded) = Len(served)
    /\ pc = "raised" =>
          \/ gen_error = "KeyError" /\ nreq = 0
          \/ gen_error = "ClientResponseError" /\ SessionRaises(last_status)
          \/ /\ gen_error \in {"ValueError", "from_dict"}
             /\ ~Decodable(data[idx], endpoint.return_type)

\* a three-page chain of a union endpoint, consumed to its end, whose first
\* two records are of different types
C1_ThreePagesConsumed ==
    /\ pc = "done"
    /\ nreq = 3
    /\ last_status = 200
    /\ endpoint = SearchRequest
    /\ Len(yielded) >= 4
    /\ yielded[1] # yielded[2]

\* C2: no request is issued before the consumer asks for the first record;
\* every record of the earlier pages was delivered before the last page was
\* requested; and a consumer that holds a record, or stopped after one, holds a
\* record of the page requested last, so that no page beyond it was requested.
C2_PaginationIsLazy ==
    /\ pc \in {"none", "created"} => nreq = 0
    /\ (pc = "closed" /\ yielded = <<>>) => nreq = 0
    /\ Len(yielded) >= Len(served) - Len(data)
    /\ (pc \in {"suspended", "closed"} /\ yielded # <<>>) =>
          /\ idx >= 1
          /\ Len(yielded) = Len(served) - Len(data) + idx

\* the consumer took the first record of a sequence that has a second page and stopped
C2_StoppedAfterFirstRecord ==
    /\ pc = "closed"
    /\ Len(yielded) = 1
    /\ Len(data) = 2
    /\ ~next_href.none
    /\ nreq = 1

\* C3: a single-resource call answered with status 400, 404 or 500 returns None.
C3_EmptyStatusReturnsNone ==
    (last_request.shape = "single" /\ last_status \in EmptyStatuses) =>
        result = ReturnedNone

\* the values of key k in a query string, in order, blank values included
ValuesOf(query, k) ==
    LET sel == SelectSeq(query, LAMBDA p : p[1] = k) IN
    [i \in 1..Len(sel) |-> sel[i][2]]

\* the query parameters embedded in a cursor, plus client_id
CursorParams(href, cid) ==
    [k \in {href.query[i][1] : i \in 1..Len(href.query)} \cup {"client_id"} |->
        IF k = "client_id" THEN <<cid>> ELSE ValuesOf(href.query, k)]

\* C4: every request carries the client's client_id, and a follow-up request
\* of a paginated sequence goes to the cursor's URL with exactly the query
\* parameters of the cursor plus client_id.
C4_RequestsCarryClientIdAndCursorParams ==
    [][/\ last_request' # NoRequest =>
             /\ "client_id" \in DOMAIN last_request'.params
             /\ last_request'.params["client_id"] = <<client_id>>
       /\ (pc = "fetch" /\ nreq >= 1 /\ nreq' = nreq + 1) =>
             /\ last_request'.url = <<next_href.origin>> \o next_href.path
             /\ last_request'.params = CursorParams(next_href, client_id)]_vars

\* C5: a request carries Authorization: 'OAuth t' exactly when the client
\* holds the auth token t at the moment the request is issued, and no
\* Authorization header when the client holds no token.
C5_AuthorizationFollowsToken ==
    [][(/\ last_request' # NoRequest
        /\ (nreq' = nreq + 1 \/ last_request' # last_request)) =>
          AuthHeader(last_request'.headers) =
              (IF Truthy(_auth_token) THEN OAuthOf(_auth_token) ELSE NoneStr)]_vars

\* C6: a page answered with status 400, 404 or 500 ends the paginated
\* sequence normally, without an error.
C6_EmptyStatusEndsSequence ==
    (last_request.shape = "collection" /\ last_status \in EmptyStatuses) =>
        (pc = "done" /\ gen_error = "")

\* C7: a bulk-list call issues one request and returns the decoded elements
\* of the response array in order on success, and the empty list when the
\* status is 400, 404 or 500.
C7_BulkListReturnsList ==
    last_request.shape = "list" =>
        /\ nreq = 1
        /\ last_status \in EmptyStatuses => result = ReturnedList(<<>>)
        /\ (/\ last_status \in 200..299
            /\ \A i \in 1..Len(last_body) : Decodable(last_body[i], endpoint.return_type)) =>
              /\ result.kind = "list"
              /\ Len(result.vals) = Len(last_body)
              /\ \A i \in 1..Len(last_body) :
                    IsDecodedAs(result.vals[i], last_body[i], endpoint.return_type)

\* the request a GraphQL call posts
GraphQLRequestPosted ==
    /\ nreq = 1
    /\ last_request.method = "POST"
    /\ last_request.url = <<graphql_base>>
    /\ last_request.json.operationName = endpoint.operation_name
    /\ last_request.json.query = endpoint.query_template_str
    /\ last_request.json.variables \in QueryArgInputs
    /\ last_request.params = [k \in {"client_id"} |-> <<client_id>>]

\* the record decoded from the data field, or the decode error
GraphQLDecoded ==
    IF Decodable(last_body[1], endpoint.return_type)
    THEN /\ result.kind = "value"
         /\ IsDecodedAs(result.val, last_body[1], endpoint.return_type)
    ELSE result.kind = "raise" /\ result.err = "from_dict"

C9_FirstCandidateWins ==
    (/\ last_request.shape = "single"
     /\ endpoint.return_type.union
     /\ result.kind = "value") =>
        IsDecodedAs(result.val, last_body[1], endpoint.return_type)

\* a payload that both "Sub" and "Super" accept, decoded as "Sub"
C9_SubtypeChosen ==
    /\ last_request.shape = "single"
    /\ endpoint.return_type.union
    /\ last_body = <<{"a", "b"}>>
    /\ result.kind = "value"
    /\ result.val.type = "Sub"

\* the call that issues a request has raised a decode error
DecodeError == result'.kind = "raise" /\ result'.err \in {"ValueError", "from_dict"}

\* a step issues a request of the given shape
Issues(shape) == nreq' = nreq + 1 /\ last_request'.shape = shape

\* C10: a payload that no candidate type accepts makes the call raise a
\* decode error: a single-resource or GraphQL call whose body is decoded, a
\* bulk-list call with such an element, and a paginated sequence, which never
\* gets past such an element.
C10_DecodeErrorsReachCaller ==
    /\ [][/\ (/\ Issues("single")
              /\ ~SessionRaises(last_status')
              /\ ~Decodable(last_body'[1], endpoint'.return_type)) => DecodeError
          /\ (/\ Issues("graphql")
              /\ last_status' \notin EmptyStatuses
              /\ ~RaiseForStatus(last_status')
              /\ ~Decodable(last_body'[1], endpoint'.return_type)) => DecodeError
          /\ (/\ Issues("list")
              /\ ~SessionRaises(last_status')
              /\ \E i \in 1..Len(last_body') :
                    ~Decodable(last_body'[i], endpoint'.return_type)) => DecodeError]_vars
    /\ [](pc # "raised" =>
            \A i \in 1..idx : Decodable(data[i], endpoint.return_type))
    /\ []((pc = "raised" /\ gen_error \notin {"KeyError", "ClientResponseError"}) =>
            /\ gen_error \in {"ValueError", "from_dict"}
            /\ ~Decodable(data[idx], endpoint.return_type))

\* a paginated sequence that yielded a record and then raised the decode
\* error of the next element
C10_SequenceRaisedDecodeError ==
    /\ pc = "raised"
    /\ gen_error = "ValueError"
    /\ Len(yielded) = 1
    /\ idx = 2

\* the template has a placeholder that the keyword arguments do not name
MissingParameter(format_url, kwargs) ==
    \E i \in 1..Len(format_url) : format_url[i].ph /\ format_url[i].s \notin DOMAIN kwargs

\* the keys of the keyword arguments that are no placeholder of the template
ResidualKeys(format_url, kwargs) ==
    {k \in DOMAIN kwargs : \A i \in 1..Len(format_url) :
                              format_url[i].ph => format_url[i].s # k}

\* C11: when the keyword arguments cover the placeholders of the template,
\* the resolved URL is the base origin followed by the template with every
\* placeholder replaced by its argument's value, and the residual parameters
\* are the arguments whose keys are no placeholder, values unchanged (here
\* with the client_id, offset and limit the paginated shape adds afterwards).
C11_TemplateResolved ==
    [][(pc = "created" /\ pc' = "fetch") =>
          LET t == endpoint.format_url
              kw == call_kwargs.kwargs
          IN /\ Len(resource_url') = Len(t) + 1
             /\ resource_url'[1] = base
             /\ \A i \in 1..Len(t) :
                   resource_url'[i + 1] = (IF t[i].ph THEN kw[t[i].s] ELSE t[i].s)
             /\ DOMAIN params' \ {"client_id", "offset", "limit"} = ResidualKeys(t, kw)
             /\ \A k \in ResidualKeys(t, kw) : params'[k] = <<kw[k]>>]_vars

\* a template of two placeholders resolved against three arguments
C11_TwoPlaceholdersResolved ==
    /\ pc = "fetch"
    /\ nreq = 0
    /\ endpoint = UserConversationMessagesRequest
    /\ resource_url = <<base, "/users/", "7", "/conversations/", "9", "/messages">>
    /\ DOMAIN params = {"q", "client_id"}

\* C12: a call of the single-resource or bulk-list shape whose template has
\* a placeholder without argument raises KeyError to its caller and issues
\* no request; a paginated sequence created with such arguments raises
\* KeyError at its first step, before any request.
C12_MissingParameterRaises ==
    [][/\ \A ep \in SingleEndpoints :
            \A kw \in {k \in FewKwargs : MissingParameter(ep.format_url, k)} :
               \A st \in FewStatuses, b \in FewPayloads :
                  SingleCall(ep, kw, st, b) =>
                     result' = Raised("KeyError") /\ nreq' = 0 /\ last_request' = NoRequest
       /\ \A ep \in ListEndpoints :
            \A kw \in {k \in FewKwargs : MissingParameter(ep.format_url, k)} :
               \A st \in FewStatuses, b \in FewCollections :
                  ListCall(ep, kw, st, b) =>
                     result' = Raised("KeyError") /\ nreq' = 0 /\ last_request' = NoRequest
       /\ (/\ pc = "created"
           /\ pc' \notin {"created", "closed"}
           /\ MissingParameter(endpoint.format_url, call_kwargs.kwargs)) =>
              /\ pc' = "raised"
              /\ gen_error' = "KeyError"
              /\ nreq' = 0
              /\ last_request' = NoRequest]_vars

\* a paginated sequence over /tracks/{track_id}/comments, created without
\* track_id, has raised KeyError at its first step
C12_SequenceRaisedKeyError ==
    /\ pc = "raised"
    /\ gen_error = "KeyError"
    /\ endpoint = TrackCommentsRequest
    /\ nreq = 0

\* C13: for a token t, assigning 't' and assigning 'OAuth t' to auth_token
\* both leave the stored token t and the derived header 'OAuth t', whatever
\* the state before; assigning again what is already stored changes nothing.
C13_SchemePrefixInsensitive ==
    [][\A t \in {"abc", "xyz"} :
          \A new \in {Str(<<t>>), Str(<<"OAuth", t>>)} :
             SetAuthToken(new) =>
                /\ _auth_token' = Str(<<t>>)
                /\ _authorization' = Str(<<"OAuth", t>>)
                /\ (_auth_token = Str(<<t>>) /\ _authorization = Str(<<"OAuth", t>>)) =>
                      clientVars' = clientVars]_vars

\* the token "xyz" stored by the setter on a client constructed with another
C13_TokenReplaced ==
    /\ phase = "running"
    /\ _auth_token = Str(<<"xyz">>)
    /\ _authorization = Str(<<"OAuth", "xyz">>)
    /\ AuthHeader(session_headers) = Str(<<"OAuth", "abc">>)
    /\ result = Done

\* C14 as stated: switching use_auth off on a client without auth token
\* fails.
C14_ToggleOffWithoutTokenFails ==
    [][(_auth_token.none /\ SetUseAuth(FALSE)) => result'.kind = "raise"]_vars

\* C14 amended: switching use_auth on for a client that holds no auth token
\* fails with ValueError and changes nothing; switching it off never fails
\* and removes the Authorization header.
C14_ToggleOnWithoutTokenFails ==
    [][\A value \in BOOLEAN :
          SetUseAuth(value) =>
             IF value /\ ~Truthy(_auth_token)
             THEN result' = Raised("ValueError") /\ clientVars' = clientVars
             ELSE /\ result' = Done
                  /\ value => AuthHeader(session_headers') = OAuthOf(_auth_token)
                  /\ ~value => AuthHeader(session_headers').none /\ _authorization'.none]_vars

\* use_auth = True has failed on a client without token
C14_ToggleOnFailed ==
    /\ phase = "running"
    /\ _auth_token.none
    /\ result = Raised("ValueError")

\* C15: a validity probe issues one request to its endpoint; it returns True
\* when the call succeeds, False when the status is 401, and raises for every
\* other status of 400 or more, for a failed connection and for a payload
\* that cannot be decoded; it returns True only after a status below 400.
C15_ProbeOutcomes ==
    [][LET c == last_body' # <<>>
           st == last_status'
           b == IF c THEN last_body'[1] ELSE {}
       IN (is_client_id_valid(st, b, c) \/ is_auth_token_valid(st, b, c)) =>
             /\ nreq' = 1
             /\ last_request'.url \in {<<base, "/tracks/", "1032303631">>, <<base, "/me">>}
             /\ (c /\ st = 401) => result' = ReturnedBool(FALSE)
             /\ (c /\ st >= 400 /\ st # 401) => result' = Raised("ClientResponseError")
             /\ ~c => result'.kind = "raise"
             /\ (c /\ st < 400 /\ Decodable(b, endpoint'.return_type)) =>
                   result' = ReturnedBool(TRUE)
             /\ (c /\ st < 400 /\ ~Decodable(b, endpoint'.return_type)) =>
                   result'.kind = "raise"
             /\ result' = ReturnedBool(TRUE) => (c /\ st < 400)]_vars

\* is_auth_token_valid answered 401 has returned False
C15_UnauthorizedIsFalse ==
    /\ endpoint = MeRequest
    /\ last_status = 401
    /\ result = ReturnedBool(FALSE)

\* C17: a constructed client owns one session, created at construction; it
\* stays open through every operation and is closed once, at interpreter
\* exit; a failed construction creates none.
C17_OneSessionClosedOnce ==
    /\ phase = "boot" => session = "none" /\ sessions_created = 0 /\ session_closes = 0
    /\ phase = "failed" => session = "none" /\ sessions_created = 0 /\ session_closes = 0
    /\ phase = "running" => session = "open" /\ sessions_created = 1 /\ session_closes = 0
    /\ phase = "exited" =>
          /\ sessions_created <= 1
          /\ sessions_created = 1 => session = "closed" /\ session_closes = 1
          /\ sessions_created = 0 => session = "none" /\ session_closes = 0

\* the interpreter has exited after a paginated sequence was consumed
C17_ClosedAtExit ==
    /\ phase = "exited"
    /\ session = "closed"
    /\ session_closes = 1
    /\ pc = "done"
    /\ nreq = 2

\* C18: the response of every request is released when the call or the
\* sequence has exited, by return, by an error status, by a decode error or
\* by aclose(); a response is held only while the sequence is suspended at a
\* yield inside its page.
C18_ResponsesReleased ==
    /\ pc = "suspended" => held = 1
    /\ pc # "suspended" => held = 0
    /\ released + held = nreq

\* a sequence closed while suspended in its second page
C18_ClosedInSecondPage ==
    /\ pc = "closed"
    /\ nreq = 2
    /\ released = 2
    /\ yielded # <<>>

\* a fetch of the bootstrap fails: no connection or an error status
FetchFails(page) == ~page.connected \/ page.status >= 400

\* C19: construction without client id fetches the landing page and the
\* script; it fails with ClientIDGenerationError and produces no client when
\* a fetch fails or a pattern is absent; construction with a client id
\* fetches nothing.
C19_BootstrapFailsWithGenerationError ==
    [][phase = "boot" =>
          \A cid \in ClientIdInputs, tok \in TokenInputs,
             landing \in FetchInputs, script \in FetchInputs :
             Construct(cid, tok, landing, script) =>
                IF Truthy(cid)
                THEN phase' = "running" /\ bootstrap_fetches' = 0 /\ client_id' = "cid"
                ELSE IF \/ FetchFails(landing) \/ ~landing.matches
                        \/ FetchFails(script) \/ ~script.matches
                THEN /\ phase' = "failed"
                     /\ session' = "none"
                     /\ result' = Raised("ClientIDGenerationError")
                ELSE phase' = "running" /\ bootstrap_fetches' = 2]_vars

\* C20: get_user_by_username returns the User that resolving the profile URL
\* produces when it produces one, and None when it produces nothing or a
\* record of another type.
C20_UserOfResolvedProfile ==
    [][get_user_by_username =>
          \A st \in Statuses, b \in Payloads :
             LET resolved == SingleOutcome(ResolveRequest.return_type, st, b) IN
             /\ (resolved.kind = "value" /\ resolved.val.type = User) => result' = resolved
             /\ (\/ resolved.kind = "none"
                 \/ resolved.kind = "value" /\ resolved.val.type # User) =>
                   result' = ReturnedNone]_vars

\* every GraphQL query so far was answered with a decodable status and one
\* entry per requested comment
AnswersComplete ==
    \A j \in 1..Len(queries) :
        /\ queries[j].kind = "full"
        /\ queries[j].status < 400

\* C16: while every GraphQL answer carries one entry per requested comment,
\* the enriched-comments operation emits the comments of the track in their
\* order, never raises after the track was found, and has, when it ends,
\* emitted all n of them using ceil(n/10) queries, each for the next 10
\* comment ids, the last for what is left.
C16_EnrichedCommentsInOrder ==
    AnswersComplete =>
        /\ Len(emitted) <= Len(track_comments)
        /\ \A i \in 1..Len(emitted) :
              /\ emitted[i].comment = track_comments[i]
              /\ emitted[i].user = track_comments[i]
              /\ emitted[i].creator = track_comments[i]
        /\ ec_pc = "raised" => queries = <<>> /\ nreq = 1
        /\ ec_pc = "done" =>
              /\ Len(emitted) = Len(track_comments)
              /\ Len(queries) = (Len(track_comments) + 9) \div 10
              /\ \A j \in 1..Len(queries) :
                    /\ Len(queries[j].ids) =
                          (IF j < Len(queries) THEN 10
                           ELSE Len(track_comments) - 10 * (Len(queries) - 1))
                    /\ \A k \in 1..Len(queries[j].ids) :
                          queries[j].ids[k] = track_comments[10 * (j - 1) + k]

\* 15 comments emitted after two queries, for 10 and for 5 comments
C16_FifteenInTwoBatches ==
    /\ ec_pc = "done"
    /\ Len(emitted) = 15
    /\ Len(queries) = 2
    /\ Len(queries[1].ids) = 10
    /\ Len(queries[2].ids) = 5
    /\ AnswersComplete

\* the number of comments the queries issued so far have asked about
RECURSIVE Queried(_)
Queried(qs) == IF qs = <<>> THEN 0 ELSE Len(qs[1].ids) + Queried(Tail(qs))

\* C21: the enriched-comments operation works batch by batch. Comments are
\* taken from the comment sequence only after the track request; every
\* query is for a non-empty batch, and the comments taken so far are exactly
\* those the queries asked about plus a batch collected and not yet queried
\* (one query per non-empty batch, issued after the whole batch was
\* collected, none for an empty batch); results emitted or waiting belong
\* to queried batches, a result is emitted only from the batch of the last
\* query, and comments of the next batch are taken only when no result of
\* the current batch is waiting to be consumed
C21_BatchesInOrder ==
    /\ [](pulled > 0 => ec_pc \notin {"none", "created"} /\ nreq >= 1)
    /\ [](\A j \in 1..Len(queries) : queries[j].ids # <<>>)
    /\ [](Queried(queries) =
             IF ec_pc = "query" THEN pulled - Len(chunk) ELSE pulled)
    /\ [](ec_pc = "query" => chunk # <<>>)
    /\ [](Len(emitted) + Len(pending) <= Queried(queries))
    /\ [][pulled' > pulled =>
             /\ pending = <<>>
             /\ Queried(queries) = pulled
             /\ pulled' - pulled <= ChunkSize
             /\ queries' = queries]_vars
    /\ [][Len(queries') > Len(queries) /\ queries # <<>> =>
             /\ pending = <<>>
             /\ Queried(queries') = pulled
             /\ \A i \in 1..Len(emitted) :
                   \A k \in 1..Len(chunk) : emitted[i].comment # chunk[k]]_vars
    /\ [][Len(emitted') > Len(emitted) =>
             /\ queries' # <<>>
             /\ \E k \in 1..Len(queries'[Len(queries')].ids) :
                   emitted'[Len(emitted')].comment = queries'[Len(queries')].ids[k]]_vars

\* the second batch was collected after the ten results of the first were
\* consumed, and its query is still to be issued
C21_SecondBatchCollected ==
    /\ ec_pc = "query"
    /\ Len(queries) = 1
    /\ Len(emitted) = 10
    /\ pending = <<>>
    /\ pulled = 15

\* C22: a 2xx answer to delete-playlist yields a NoContentResponse whatever
\* the response body is
C22_NoContentResponseOnSuccess ==
    (endpoint = DeletePlaylistRequest /\ nreq = 1 /\ last_status \in 200..299) =>
        /\ result.kind = "value"
        /\ result.val.type = "NoContentResponse"

\* C23: in every state of a constructed client the derived authorization
\* header is present exactly when a token is held and is then "OAuth " +
\* token, use_auth reads true exactly when the derived header is present,
\* and the session's Authorization header equals the derived header
C23_AuthStateDerived ==
    phase = "running" =>
        /\ ~_authorization.none <=> Truthy(_auth_token)
        /\ ~_authorization.none => _authorization = OAuthOf(_auth_token)
        /\ use_auth <=> ~_authorization.none
        /\ AuthHeader(session_headers) = _authorization

\* a client as AsyncCloud(client_id) leaves it: no token, no derived header,
\* the default session headers
FreshWithoutToken ==
    /\ phase = "running"
    /\ _auth_token.none
    /\ _authorization.none
    /\ session_headers = GetDefaultHeaders

\* C24: setting the token X on a client constructed without token leaves the
\* stored token, the derived header and the session headers that
\* constructing the client with X leaves
C24_ConstructEqualsSet ==
    [][\A X \in SetterInputs :
          (FreshWithoutToken /\ SetAuthToken(X)) =>
             /\ _auth_token' = X
             /\ _authorization' = UseAuthAuthorization(Truthy(X), X)
             /\ session_headers' = UseAuthHeaders(Truthy(X), X, GetDefaultHeaders)]_vars

\* C25: use_auth = True on a client whose token is None or empty raises
\* ValueError and changes neither the token, the derived header nor the
\* session headers; with a non-empty token t it succeeds, keeps the token
\* and sets the session's Authorization header to "OAuth t", and every
\* request through the session carries the session's headers
C25_ToggleOn ==
    /\ [][SetUseAuth(TRUE) =>
             IF _auth_token.none \/ _auth_token.words = <<>>
             THEN /\ result' = Raised("ValueError")
                  /\ _auth_token' = _auth_token
                  /\ _authorization' = _authorization
                  /\ session_headers' = session_headers
             ELSE /\ result' = Done
                  /\ _auth_token' = _auth_token
                  /\ AuthHeader(session_headers') = Str(<<"OAuth">> \o _auth_token.words)]_vars
    /\ [][(nreq' = nreq + 1 /\ last_request'.shape \in {"single", "list", "collection"}) =>
             last_request'.headers = session_headers]_vars

\* a token set after construction was switched on and a request sent with it
C25_SentAfterToggleOn ==
    /\ _auth_token = Str(<<"xyz">>)
    /\ AuthHeader(session_headers) = Str(<<"OAuth", "xyz">>)
    /\ nreq = 1
    /\ AuthHeader(last_request.headers) = Str(<<"OAuth", "xyz">>)

\* the GraphQL half of C26: a query answered with absence ends the sequence
\* without error; nothing of its batch is emitted, what was emitted belongs
\* to the batches before it
QueryAbsenceEndsSequence ==
    (queries # <<>> /\ queries[Len(queries)].status \in EmptyStatuses) =>
        /\ ec_pc = "done"
        /\ result.kind # "raise"
        /\ pending = <<>>
        /\ Len(emitted) <= Queried(SubSeq(queries, 1, Len(queries) - 1))

\* C26: a track request answered with a status of absence ends the
\* enriched-comments sequence empty, with no comment taken and no query
\* issued; a query answered with absence ends it without error
C26_AbsenceEndsSequence ==
    /\ (ec_pc \notin {"none", "created"} /\ nreq = 1 /\ last_status \in EmptyStatuses) =>
          /\ ec_pc = "done"
          /\ emitted = <<>>
          /\ pulled = 0
          /\ queries = <<>>
    /\ QueryAbsenceEndsSequence

\* the records a sequence has yielded are, in order, the decoded records of
\* the pages served to that sequence, all of them once it has ended
OwnRecordsInOrder(seq) ==
    /\ seq.endpoint = SearchRequest
    /\ Len(seq.yielded) <= Len(seq.served)
    /\ \A i \in 1..Len(seq.yielded) :
          IsDecodedAs(seq.yielded[i], seq.served[i], seq.endpoint.return_type)
    /\ seq.pc = "done" => Len(seq.yielded) = Len(seq.served)
    /\ seq.pc \in {"none", "created"} => seq.nreq = 0 /\ seq.yielded = <<>>

\* C27: every page request of a sequence carries the client_id and the
\* session headers the client has when that request is issued, the URL and
\* the cursor parameters of the sequence's own last page; of two sequences
\* of one endpoint definition consumed in any interleaving each yields its
\* own records in order, advancing one leaves the other as it was, and the
\* endpoint definition stays what it is
C27_NoClientStateCaptured ==
    /\ [][(pc = "fetch" /\ nreq' = nreq + 1) =>
             /\ last_request'.params["client_id"] = <<client_id>>
             /\ last_request'.headers = session_headers
             /\ last_request'.url = resource_url
             /\ nreq > 0 =>
                   \A k \in DOMAIN last_request'.params \ {"client_id"} :
                       last_request'.params[k] = ValuesOf(next_href.query, k)]_vars
    /\ [](OwnRecordsInOrder(ThisSequence) /\ OwnRecordsInOrder(other))
    /\ [][other' # other => (other' = ThisSequence /\ ThisSequence' = other)]_vars

\* the first page of a sequence was requested with client_id "cid", the
\* client_id was changed while the sequence was suspended, and the
\* parameters of its second page request carry the new client_id; a second
\* sequence was created meanwhile
C27_ChangeSeenByNextPage ==
    /\ pc = "fetch"
    /\ nreq = 1
    /\ Len(yielded) = 2
    /\ last_request.shape = "collection"
    /\ last_request.params["client_id"] = <<"cid">>
    /\ client_id = "cid2"
    /\ params["client_id"] = <<"cid2">>
    /\ other.pc = "created"

\* C28: against a server with a finite cursor chain that answers 200, a
\* sequence whose consumer keeps asking reaches its end; a page is the last
\* one only if it names no next page, so a page with an empty collection
\* and a next_href is followed by the request of the next page, and a
\* cursor is followed however many pages were requested before
C28_SequenceEnds ==
    /\ (pc = "created") ~> (pc = "done")
    /\ [](pc = "done" => next_href.none /\ Len(yielded) = Len(served))
    /\ [][(pc = "fetch" /\ nreq' = nreq + 1 /\ last_body' = <<>> /\ ~next_href'.none) =>
             /\ pc' = "fetch"
             /\ resource_url' = urljoin(next_href')]_vars
    /\ [][(pc \in {"fetch", "suspended"} /\ pc' = "done") => next_href'.none]_vars

\* the sequence has ended after pages with empty collections that named a
\* next page, as many as the model allows
C28_EndedAfterEmptyPages ==
    /\ pc = "done"
    /\ nreq = MaxPages
    /\ served = <<>>
    /\ last_request.url = <<base, "/next">>

====
